---- MODULE Spec2Model ----
(***************************************************************************)
(* OCR backend: engine-readiness lifecycle (OCRService), the validators    *)
(* of core/security.py, the preprocessing of utils/image_processor.py and  *)
(* the /health, / and /predict routes of api/routes.py.                     *)
(*                                                                         *)
(* Conventions                                                             *)
(*   - Python None / an absent dict key is the empty sequence <<>>, a      *)
(*     present optional value v is <<v>>.                                  *)
(*   - A Python string built by an f-string is the sequence of its         *)
(*     fragments, so "contains the exception text" is membership.          *)
(*   - OCR text is a sequence of one-character strings; " " is whitespace. *)
(*   - A confidence is an integer number of thousandths (0 .. 1000).       *)
(*   - calls is the ordered log of the call sites a request has reached;   *)
(*     "preprocess.warning" is the logger.warning of preprocess's handler. *)
(***************************************************************************)
EXTENDS Integers, Sequences, FiniteSets, TLC

VARIABLES phase, reader, loadOutcome, req

vars == <<phase, reader, loadOutcome, req>>

\* ---------------------------------------------------------------- bounds
NumReq == 1
MaxHits == 2
\* Handlers in flight on the event loop in SpecConc.
NumConc == 2

Requests == 1 .. NumReq

\* ------------------------------------------------------------ Python values
None == <<>>
Some(v) == <<v>>

\* ------------------------------------------------------------ input domains
\* Declared content types of an upload (three supported, two not).
ContentTypes == {"image/png", "image/jpeg", "image/jpg", "image/gif", "text/plain"}

\* Texts of the exceptions the environment can raise.
ExcTexts == {"disk read error", "CUDA out of memory"}

MiB == 1024 * 1024

\* Uploaded byte payloads, by what PIL makes of them:
\*   valid     opens, verifies and decodes
\*   truncated opens and verifies, the pixel data fails to decode
\*   badcrc    opens, verify() raises
\*   corrupt   Image.open raises
Payloads ==
  { [size |-> 4096,         kind |-> "valid",     format |-> "PNG",  mode |-> "RGB", dims |-> "100x100"],
    [size |-> 10 * MiB,     kind |-> "valid",     format |-> "JPEG", mode |-> "L",   dims |-> "50x50"],
    [size |-> 10 * MiB + 1, kind |-> "valid",     format |-> "JPEG", mode |-> "RGB", dims |-> "4000x3000"],
    [size |-> 11 * MiB,     kind |-> "valid",     format |-> "JPEG", mode |-> "RGB", dims |-> "4000x3000"],
    [size |-> 5,            kind |-> "corrupt",   format |-> "",     mode |-> "",    dims |-> ""],
    [size |-> 11 * MiB,     kind |-> "corrupt",   format |-> "",     mode |-> "",    dims |-> ""],
    [size |-> 2048,         kind |-> "truncated", format |-> "JPEG", mode |-> "RGB", dims |-> "100x100"],
    [size |-> 2048,         kind |-> "truncated", format |-> "JPEG", mode |-> "L",   dims |-> "100x100"],
    [size |-> 2048,         kind |-> "badcrc",    format |-> "PNG",  mode |-> "RGB", dims |-> "100x100"] }

NoContents == [size |-> 0, kind |-> "none", format |-> "", mode |-> "", dims |-> ""]

\* Recognition hits (bbox, text, confidence); the bounding box is opaque.
HitSet ==
  { [text |-> <<"H", "I">>,           confidence |-> 1000],
    [text |-> <<"a", " ", "b", " ">>, confidence |-> 500] }

RECURSIVE SeqsUpTo(_, _)
SeqsUpTo(S, n) ==
  IF n = 0 THEN {<<>>}
  ELSE LET shorter == SeqsUpTo(S, n - 1)
       IN shorter \cup {Append(s, x) : s \in {t \in shorter : Len(t) = n - 1}, x \in S}

HitSeqs == SeqsUpTo(HitSet, MaxHits)

\* What happens inside the try block of _extract_text: cv2.cvtColor raises,
\* reader.readtext raises, or reader.readtext returns a list of hits.
EngineOutcomes ==
  {[kind |-> "cvt_raise", msg |-> "OpenCV error", hits |-> <<>>]}
    \cup {[kind |-> "raise", msg |-> m, hits |-> <<>>] : m \in ExcTexts}
    \cup {[kind |-> "return", msg |-> "", hits |-> h] : h \in HitSeqs}

\* What the environment does during one request.
\*   read      outcome of `await image.read()`: "" (returns) or an exception text
\*   preFault  cv2 raises inside ImageProcessor.preprocess
\*   engine    outcome of the try block of _extract_text
Envs ==
  [read : {""} \cup ExcTexts, preFault : BOOLEAN, engine : EngineOutcomes]

\* ------------------------------------------------------------ str helpers
RECURSIVE lstrip(_)
lstrip(s) == IF s # <<>> /\ Head(s) = " " THEN lstrip(Tail(s)) ELSE s

RECURSIVE rstrip(_)
rstrip(s) ==
  IF s # <<>> /\ s[Len(s)] = " " THEN rstrip(SubSeq(s, 1, Len(s) - 1)) ELSE s

\* str.strip()
strip(s) == rstrip(lstrip(s))

\* " ".join(parts)
RECURSIVE join(_)
join(parts) ==
  IF parts = <<>> THEN <<>>
  ELSE IF Len(parts) = 1 THEN parts[1]
  ELSE parts[1] \o <<" ">> \o join(Tail(parts))

\* sum(confidences)
RECURSIVE sum(_)
sum(xs) == IF xs = <<>> THEN 0 ELSE Head(xs) + sum(Tail(xs))

\* round(total / n, 3) on thousandths: nearest thousandth, a tie upwards (no
\* tie arises for confidences that are multiples of 0.5 and n < 8).
round3(total, n) == (2 * total + n) \div (2 * n)

\* len(text.split()): whitespace-separated words of a text.
RECURSIVE words(_, _)
words(s, inWord) ==
  IF s = <<>> THEN 0
  ELSE IF Head(s) = " " THEN words(Tail(s), FALSE)
  ELSE (IF inWord THEN 0 ELSE 1) + words(Tail(s), TRUE)

\* ------------------------------------------------------------ core/security.py
supported_types == {"image/png", "image/jpeg", "image/jpg"}

validate_image_content_type(content_type) == content_type \in supported_types

\* Mutant: the limit itself is rejected.
validate_file_size_lt(size, max_size_mb) == size < max_size_mb * 1024 * 1024

validate_file_size(size, max_size_mb) == size <= max_size_mb * 1024 * 1024

\* ------------------------------------------------------------ PIL / numpy
\* Image.open(io.BytesIO(contents)) raises
pil_open_raises(contents) == contents.kind = "corrupt"

\* image.verify() raises
pil_verify_raises(contents) == contents.kind = "badcrc"

\* loading the pixel data (convert, np.array) raises
pil_load_raises(contents) == contents.kind \in {"truncated", "badcrc"}

\* np.array(pil_image) of an RGB image: a height x width x 3 array
rgb_array == [ndim |-> 3, denoised |-> FALSE]

\* ------------------------------------------------------------ utils/image_processor.py
\* Mutant: on an exception the grayscale intermediate is returned, not the input.
preprocess_returns_partial(image, preFault) ==
  IF preFault THEN [ndim |-> 2, denoised |-> FALSE]
  ELSE [ndim |-> 2, denoised |-> TRUE]

\* ImageProcessor.preprocess: grayscale, then a 3x3 median blur; on any
\* exception the input image is returned.
preprocess(image, preFault) ==
  IF preFault THEN image
  ELSE [ndim |-> 2, denoised |-> TRUE]

\* ------------------------------------------------------------ services/ocr_services.py
Reader == Some("easyocr.Reader")

\* OCRService.__init__, line 17
reader_initial == None

\* Mutant: a failed construction leaves a half-built reader behind.
_initialize_ocr_keeps_reader(outcome) ==
  IF outcome = "ok" THEN Reader ELSE Some("half-built")

\* OCRService._initialize_ocr: the reader attribute it leaves behind.
\* outcome is what easyocr.Reader(...) does: "ok" or "raise".
_initialize_ocr(outcome) ==
  IF outcome = "ok" THEN Reader ELSE None

is_healthy(rd) == rd # None

\* OCRService.validate_image
validate_image(contents) ==
  IF pil_open_raises(contents) \/ pil_verify_raises(contents)
    THEN FALSE
    ELSE TRUE

\* Mutant: the failure dict is built without its error message.
failed_result_without_error(error) ==
  [success |-> FALSE, text |-> <<>>, confidence |-> None, word_count |-> None,
   error |-> None, image_format |-> None, image_size |-> None]

\* The failure dict of process_image and _extract_text: keys success, text, error.
failed_result(error) ==
  [success |-> FALSE, text |-> <<>>, confidence |-> None, word_count |-> None,
   error |-> Some(error), image_format |-> None, image_size |-> None]

\* _extract_text, lines 108-113: the texts of the hits, in engine order.
extracted_text(results) == [i \in 1 .. Len(results) |-> results[i].text]

\* _extract_text, lines 108-113: the confidences of the hits.
confidences(results) == [i \in 1 .. Len(results) |-> results[i].confidence]

\* _extract_text, line 119: the mean confidence, 0 for no hits, rounded as
\* line 124 rounds it.
avg_confidence(cs) ==
  IF cs # <<>> THEN round3(sum(cs), Len(cs)) ELSE 0

\* Mutant: word_count counts the whitespace-separated words of the text.
aggregate_counts_words(results) ==
  [success |-> TRUE, text |-> strip(join(extracted_text(results))),
   confidence |-> Some(avg_confidence(confidences(results))),
   word_count |-> Some(words(strip(join(extracted_text(results))), FALSE)),
   error |-> None, image_format |-> None, image_size |-> None]

\* Mutant: the mean is taken without the guard for an empty list, so that
\* zero hits raise ZeroDivisionError inside the try block.
aggregate_divides_by_zero(results) ==
  IF results = <<>>
    THEN [success |-> FALSE, text |-> <<>>, confidence |-> None, word_count |-> None,
          error |-> Some(<<"OCR processing failed: ", "division by zero">>),
          image_format |-> None, image_size |-> None]
    ELSE [success |-> TRUE, text |-> strip(join(extracted_text(results))),
          confidence |-> Some(avg_confidence(confidences(results))),
          word_count |-> Some(Len(extracted_text(results))),
          error |-> None, image_format |-> None, image_size |-> None]

\* The success dict of _extract_text, lines 115-127.
aggregate(results) ==
  [success |-> TRUE, text |-> strip(join(extracted_text(results))),
   confidence |-> Some(avg_confidence(confidences(results))),
   word_count |-> Some(Len(extracted_text(results))),
   error |-> None, image_format |-> None, image_size |-> None]

\* OCRService._extract_text. "readtext" is logged when line 105 is reached.
_extract_text(rd, image, env) ==
  IF env.engine.kind = "cvt_raise"
    THEN [result |-> failed_result(<<"OCR processing failed: ", env.engine.msg>>),
          calls |-> <<"cvtColor">>, hits |-> None, engine_image |-> None]
  ELSE IF rd = None
    THEN [result |-> failed_result(<<"OCR processing failed: ",
                                     "'NoneType' object has no attribute 'readtext'">>),
          calls |-> <<"cvtColor", "readtext">>, hits |-> None, engine_image |-> Some(image)]
  ELSE IF env.engine.kind = "raise"
    THEN [result |-> failed_result(<<"OCR processing failed: ", env.engine.msg>>),
          calls |-> <<"cvtColor", "readtext">>, hits |-> None, engine_image |-> Some(image)]
  ELSE [result |-> aggregate(env.engine.hits),
        calls |-> <<"cvtColor", "readtext">>, hits |-> Some(env.engine.hits),
        engine_image |-> Some(image)]

\* OCRService.process_image, lines 58-93: the try block and its handler.
process_image_try(rd, contents, env) ==
  IF pil_open_raises(contents)
    THEN [result |-> failed_result(<<"Image processing failed: ", "cannot identify image file">>),
          calls |-> <<"Image.open">>, hits |-> None, engine_image |-> None]
  ELSE IF pil_load_raises(contents)
    THEN [result |-> failed_result(<<"Image processing failed: ", "image file is truncated">>),
          calls |-> <<"Image.open">>
                      \o (IF contents.mode # "RGB" THEN <<"convert">> ELSE <<"np.array">>),
          hits |-> None, engine_image |-> None]
  ELSE LET image_format == contents.format
           image_size == contents.dims
           image_np == rgb_array
           processed_image == preprocess(image_np, env.preFault)
           ex == _extract_text(rd, processed_image, env)
       IN [result |-> [ex.result EXCEPT !.image_format = Some(image_format),
                                        !.image_size = Some(image_size)],
           calls |-> <<"Image.open">>
                       \o (IF contents.mode # "RGB" THEN <<"convert">> ELSE <<>>)
                       \o <<"np.array", "preprocess">>
                       \o (IF env.preFault THEN <<"preprocess.warning">> ELSE <<>>)
                       \o ex.calls,
           hits |-> ex.hits, engine_image |-> ex.engine_image]

\* Mutant: process_image without its readiness guard (lines 51-56).
process_image_unguarded(rd, contents, env) ==
  LET p == process_image_try(rd, contents, env)
  IN [p EXCEPT !.calls = <<"is_healthy">> \o p.calls]

\* OCRService.process_image
process_image(rd, contents, env) ==
  IF ~is_healthy(rd)
    THEN [result |-> failed_result(<<"OCR engine not available">>),
          calls |-> <<"is_healthy">>, hits |-> None, engine_image |-> None]
    ELSE LET p == process_image_try(rd, contents, env)
         IN [p EXCEPT !.calls = <<"is_healthy">> \o p.calls]

\* ------------------------------------------------------------ api/routes.py
\* health_check
health_check(rd) ==
  [status |-> IF is_healthy(rd) THEN "healthy" ELSE "unhealthy",
   ocr_engine |-> "EasyOCR", version |-> "1.0.0"]

\* root
root(rd) ==
  [message |-> "OCR API is running",
   status |-> IF is_healthy(rd) THEN "healthy" ELSE "unhealthy",
   version |-> "1.0.0", docs |-> "/docs"]

NoOutcome ==
  [kind |-> "none", status |-> 0, detail |-> <<>>, msg |-> "", result |-> None,
   calls |-> <<>>, hits |-> None, engine_image |-> None]

\* raise HTTPException(status_code, detail)
HTTPException(status_code, detail, calls) ==
  [NoOutcome EXCEPT !.kind = "http", !.status = status_code, !.detail = detail,
                    !.calls = calls]

\* Mutant: predict without its readiness check (lines 41-46).
predict_entry_without_health(rd, content_type) ==
  IF ~validate_image_content_type(content_type)
    THEN HTTPException(400, <<"File must be a supported image type (PNG, JPG, JPEG)">>,
                       <<"validate_image_content_type">>)
    ELSE [NoOutcome EXCEPT !.kind = "continue",
                           !.calls = <<"validate_image_content_type">>]

\* predict, lines 34-46: the checks made before the upload is read.
\* kind "continue" is the handler reaching `await image.read()`.
predict_entry(rd, content_type) ==
  IF ~validate_image_content_type(content_type)
    THEN HTTPException(400, <<"File must be a supported image type (PNG, JPG, JPEG)">>,
                       <<"validate_image_content_type">>)
  ELSE IF ~is_healthy(rd)
    THEN HTTPException(503, <<"OCR service temporarily unavailable">>,
                       <<"validate_image_content_type", "is_healthy">>)
  ELSE [NoOutcome EXCEPT !.kind = "continue",
                         !.calls = <<"validate_image_content_type", "is_healthy">>]

\* Mutant: a failed ExtractionResult is raised instead of returned.
predict_try_raises_failed(rd, contents, env) ==
  IF env.read # ""
    THEN [NoOutcome EXCEPT !.kind = "exc", !.msg = env.read, !.calls = <<"read">>]
  ELSE IF ~validate_file_size(contents.size, 10)
    THEN HTTPException(400, <<"File size too large. Maximum size is 10MB">>,
                       <<"read", "validate_file_size">>)
  ELSE IF ~validate_image(contents)
    THEN HTTPException(400, <<"Invalid image file">>,
                       <<"read", "validate_file_size", "validate_image">>)
  ELSE LET p == process_image(rd, contents, env)
           calls == <<"read", "validate_file_size", "validate_image", "process_image">>
                      \o p.calls
       IN IF ~p.result.success
            THEN [NoOutcome EXCEPT !.kind = "exc", !.msg = "OCR failed", !.calls = calls]
            ELSE [NoOutcome EXCEPT !.kind = "return", !.status = 200,
                                   !.result = Some(p.result), !.calls = calls,
                                   !.hits = p.hits, !.engine_image = p.engine_image]

\* predict, lines 48-69: the body of the try block, from the completed read
\* of the upload to `return OCRResponse(**result)`. kind "exc" is an
\* exception other than HTTPException leaving the block.
predict_try(rd, contents, env) ==
  IF env.read # ""
    THEN [NoOutcome EXCEPT !.kind = "exc", !.msg = env.read, !.calls = <<"read">>]
  ELSE IF ~validate_file_size(contents.size, 10)
    THEN HTTPException(400, <<"File size too large. Maximum size is 10MB">>,
                       <<"read", "validate_file_size">>)
  ELSE IF ~validate_image(contents)
    THEN HTTPException(400, <<"Invalid image file">>,
                       <<"read", "validate_file_size", "validate_image">>)
  ELSE LET p == process_image(rd, contents, env)
       IN [NoOutcome EXCEPT !.kind = "return", !.status = 200, !.result = Some(p.result),
                            !.calls = <<"read", "validate_file_size", "validate_image",
                                        "process_image">> \o p.calls,
                            !.hits = p.hits, !.engine_image = p.engine_image]

\* Mutant: without `except HTTPException: raise`, every exception is a 500.
predict_except_catches_all(outcome) ==
  IF outcome.kind \in {"exc", "http"}
    THEN [outcome EXCEPT !.kind = "http", !.status = 500,
                         !.detail = <<"Internal server error: ">>
                                      \o (IF outcome.kind = "exc" THEN <<outcome.msg>>
                                          ELSE outcome.detail)]
    ELSE outcome

\* predict, lines 71-77: the except clauses of the try block.
predict_except(outcome) ==
  IF outcome.kind = "exc"
    THEN [outcome EXCEPT !.kind = "http", !.status = 500,
                         !.detail = <<"Internal server error: ", outcome.msg>>]
    ELSE outcome

\* ------------------------------------------------------------ state machine
\* A request slot: the position of one handler of the event loop (or of one
\* direct caller of process_image) and what it has done so far.
Idle ==
  [pc |-> "idle", via |-> "none", content_type |-> "", contents |-> NoContents,
   calls |-> <<>>, status |-> 0, detail |-> <<>>, result |-> None, exc |-> "",
   hits |-> None, engine_image |-> None, info |-> None]

Init ==
  /\ phase = "constructed"
  /\ reader = reader_initial
  /\ loadOutcome = "pending"
  /\ req = [r \in Requests |-> Idle]

\* OCRService.__init__ calling _initialize_ocr, once, at import of the module.
InitializeOcr ==
  /\ phase = "constructed"
  /\ \E outcome \in {"ok", "raise"} :
       /\ reader' = _initialize_ocr(outcome)
       /\ loadOutcome' = outcome
  /\ phase' = "serving"
  /\ UNCHANGED req

\* GET /health
HealthCheck(r) ==
  /\ phase = "serving"
  /\ req[r].pc = "idle"
  /\ req' = [req EXCEPT ![r] =
               [Idle EXCEPT !.pc = "done", !.via = "health", !.status = 200,
                            !.info = Some(health_check(reader))]]
  /\ UNCHANGED <<phase, reader, loadOutcome>>

\* GET /
Root(r) ==
  /\ phase = "serving"
  /\ req[r].pc = "idle"
  /\ req' = [req EXCEPT ![r] =
               [Idle EXCEPT !.pc = "done", !.via = "root", !.status = 200,
                            !.info = Some(root(reader))]]
  /\ UNCHANGED <<phase, reader, loadOutcome>>

\* POST /predict, up to the suspension at `await image.read()`.
PredictBegin(r) ==
  /\ phase = "serving"
  /\ req[r].pc = "idle"
  /\ \E content_type \in ContentTypes :
       LET o == predict_entry(reader, content_type)
       IN req' = [req EXCEPT ![r] =
                    [Idle EXCEPT !.pc = IF o.kind = "continue" THEN "reading" ELSE "done",
                                 !.via = "route", !.content_type = content_type,
                                 !.calls = o.calls, !.status = o.status,
                                 !.detail = o.detail]]
  /\ UNCHANGED <<phase, reader, loadOutcome>>

\* POST /predict, from the completion of the read to the response.
PredictResume(r) ==
  /\ req[r].pc = "reading"
  /\ \E contents \in Payloads, env \in Envs :
       LET o == predict_except(predict_try(reader, contents, env))
       IN req' = [req EXCEPT ![r] =
                    [@ EXCEPT !.pc = "done",
                              !.contents = IF env.read = "" THEN contents ELSE NoContents,
                              !.calls = @ \o o.calls, !.status = o.status,
                              !.detail = o.detail, !.result = o.result, !.exc = o.msg,
                              !.hits = o.hits, !.engine_image = o.engine_image]]
  /\ UNCHANGED <<phase, reader, loadOutcome>>

\* A caller invoking ocr_service.process_image(contents) directly.
ProcessImageDirect(r) ==
  /\ phase = "serving"
  /\ req[r].pc = "idle"
  /\ \E contents \in Payloads, env \in Envs :
       LET p == process_image(reader, contents, env)
       IN req' = [req EXCEPT ![r] =
                    [Idle EXCEPT !.pc = "done", !.via = "direct", !.contents = contents,
                                 !.calls = <<"process_image">> \o p.calls,
                                 !.result = Some(p.result), !.hits = p.hits,
                                 !.engine_image = p.engine_image]]
  /\ UNCHANGED <<phase, reader, loadOutcome>>

\* The response has been sent: the request-scoped data is released.
Complete(r) ==
  /\ req[r].pc = "done"
  /\ req' = [req EXCEPT ![r] = Idle]
  /\ UNCHANGED <<phase, reader, loadOutcome>>

Next ==
  \/ InitializeOcr
  \/ \E r \in Requests : HealthCheck(r)
  \/ \E r \in Requests : Root(r)
  \/ \E r \in Requests : PredictBegin(r)
  \/ \E r \in Requests : PredictResume(r)
  \/ \E r \in Requests : ProcessImageDirect(r)
  \/ \E r \in Requests : Complete(r)

Spec == Init /\ [][Next]_vars

\* ------------------------------------------------------------ properties
Contains(seq, x) == \E i \in 1 .. Len(seq) : seq[i] = x

\* The handler of request slot r has answered (or the direct call has returned).
Done(r) == req[r].pc = "done"

Validators == {"validate_image_content_type", "validate_file_size", "validate_image"}

TooLarge == <<"File size too large. Maximum size is 10MB">>
InvalidImage == <<"Invalid image file">>
UnsupportedType == <<"File must be a supported image type (PNG, JPG, JPEG)">>

\* The try block of _extract_text was entered and left by an exception.
RecognitionFailed(r) == Contains(req[r].calls, "cvtColor") /\ req[r].hits = None

\* C1: while the reader is None, no request reaches the reader.readtext call
\* site, whether it comes through the predict route or through a direct call
\* of process_image, whatever its content type and payload.
C1_NoEngineCallWhenUnavailable ==
  \A r \in Requests : reader = None => ~Contains(req[r].calls, "readtext")

\* A direct call of process_image has returned while the reader is None.
C1_Witness ==
  \E r \in Requests :
    /\ phase = "serving" /\ reader = None
    /\ Done(r) /\ req[r].via = "direct"
    /\ Contains(req[r].calls, "process_image")
    /\ req[r].contents.kind = "valid"

\* C2 as stated: with the engine not initialized, every predict request, of
\* any declared content type, is answered 503 and no validator has run.
C2_Always503NoValidator ==
  \A r \in Requests :
    (loadOutcome = "raise" /\ req[r].via = "route" /\ Done(r)) =>
      /\ req[r].status = 503
      /\ \A v \in Validators : ~Contains(req[r].calls, v)

\* C2 as amended: with the engine not initialized, a predict request never
\* gets past the checks made before the upload is read. The content-type
\* check runs first: a supported type is answered 503, an unsupported type
\* 400. In both cases the upload is not read and neither the size check,
\* the image integrity check nor process_image (so the preprocessor) runs.
C2_UnavailableStopsBeforeRead ==
  \A r \in Requests :
    (loadOutcome = "raise" /\ req[r].via = "route") =>
      /\ Done(r)
      /\ req[r].contents = NoContents
      /\ IF req[r].content_type \in supported_types
           THEN /\ req[r].status = 503
                /\ req[r].detail = <<"OCR service temporarily unavailable">>
                /\ req[r].calls = <<"validate_image_content_type", "is_healthy">>
           ELSE /\ req[r].status = 400
                /\ req[r].detail = UnsupportedType
                /\ req[r].calls = <<"validate_image_content_type">>

\* A predict request with a supported type was answered while Unavailable.
C2_Witness ==
  \E r \in Requests :
    /\ loadOutcome = "raise" /\ req[r].via = "route" /\ Done(r)
    /\ req[r].content_type = "image/png"
    /\ req[r].status = 503

\* C3: the reader starts as None; engine initialization decides it once
\* (set on success, None on failure); once the service is serving, no step
\* of any handler changes it or re-runs the initialization.
C3_ReadinessDecidedOnce ==
  /\ (phase = "constructed" /\ reader = None)
  /\ [](phase = "serving" => (is_healthy(reader) <=> loadOutcome = "ok"))
  /\ [][phase = "serving" =>
          (reader' = reader /\ phase' = "serving" /\ loadOutcome' = loadOutcome)]_vars

\* A predict request whose recognition call raised has been answered by a
\* Ready service.
C3_Witness ==
  \E r \in Requests :
    /\ phase = "serving" /\ is_healthy(reader)
    /\ req[r].via = "route" /\ Done(r)
    /\ Contains(req[r].calls, "readtext") /\ req[r].hits = None

\* C4: every result of process_image has success true exactly when error is
\* absent, and success false exactly when text is empty and error present.
C4_SuccessIffNoError ==
  \A r \in Requests :
    req[r].result # None =>
      LET res == req[r].result[1]
      IN /\ res.success <=> (res.error = None)
         /\ (~res.success) <=> (res.text = <<>> /\ res.error # None)

\* A predict request was answered 200 with a failed result of the decode step.
C4_Witness ==
  \E r \in Requests :
    /\ req[r].via = "route" /\ Done(r) /\ req[r].status = 200
    /\ req[r].result # None
    /\ ~req[r].result[1].success
    /\ req[r].contents.kind = "truncated"

\* C5: word_count equals the number of hits the engine returned.
C5_WordCountIsHitCount ==
  \A r \in Requests :
    req[r].hits # None =>
      /\ req[r].result # None
      /\ req[r].result[1].word_count = Some(Len(req[r].hits[1]))

\* The engine returned two hits, one of them a region of two words.
C5_Witness ==
  \E r \in Requests :
    /\ req[r].hits # None
    /\ Len(req[r].hits[1]) = 2
    /\ \E i \in 1 .. 2 : words(req[r].hits[1][i].text, FALSE) = 2
    /\ req[r].result[1].word_count = Some(2)

\* C6: zero hits make a successful result with empty text, confidence 0,
\* word_count 0 and no error.
C6_ZeroHitsIsSuccess ==
  \A r \in Requests :
    req[r].hits = Some(<<>>) =>
      /\ req[r].result # None
      /\ LET res == req[r].result[1]
         IN /\ res.success
            /\ res.text = <<>>
            /\ res.confidence = Some(0)
            /\ res.word_count = Some(0)
            /\ res.error = None

\* A predict request on a valid image for which the engine found nothing.
C6_Witness ==
  \E r \in Requests :
    /\ req[r].via = "route" /\ Done(r) /\ req[r].status = 200
    /\ req[r].hits = Some(<<>>)
    /\ req[r].contents.kind = "valid"

\* C7: with the service Ready and a supported content type, a payload of
\* more than 10 MiB is answered 400 "too large" with neither validate_image
\* nor process_image (nor any decode) called; one of exactly 10 MiB is not
\* rejected for its size.
C7_OversizeRejectedBeforeDecode ==
  \A r \in Requests :
    (req[r].via = "route" /\ Done(r) /\ req[r].contents # NoContents) =>
      /\ req[r].contents.size > 10 * MiB =>
           /\ req[r].status = 400
           /\ req[r].detail = TooLarge
           /\ \A c \in {"validate_image", "process_image", "Image.open", "readtext"} :
                ~Contains(req[r].calls, c)
      /\ req[r].contents.size = 10 * MiB =>
           /\ req[r].detail # TooLarge
           /\ Contains(req[r].calls, "validate_image")

\* A structurally valid payload of 11 MiB was rejected.
C7_Witness ==
  \E r \in Requests :
    /\ req[r].via = "route" /\ Done(r)
    /\ req[r].contents.size = 11 * MiB /\ req[r].contents.kind = "valid"
    /\ req[r].status = 400

\* C8: every validation failure of predict (unsupported content type,
\* oversized payload, image that fails to open or to verify) is answered 400
\* with the reason of the check that failed, never 500, and the engine has
\* not been called.
C8_ValidationFailureIs400 ==
  \A r \in Requests :
    (req[r].via = "route" /\ Done(r)) =>
      LET c == req[r].contents
          badType == req[r].content_type \notin supported_types
          tooBig == c # NoContents /\ c.size > 10 * MiB
          badImage == c # NoContents /\ c.size <= 10 * MiB
                        /\ (pil_open_raises(c) \/ pil_verify_raises(c))
      IN /\ badType => (req[r].status = 400 /\ req[r].detail = UnsupportedType)
         /\ tooBig => (req[r].status = 400 /\ req[r].detail = TooLarge)
         /\ badImage => (req[r].status = 400 /\ req[r].detail = InvalidImage)
         /\ (badType \/ tooBig \/ badImage) => ~Contains(req[r].calls, "readtext")

\* An image whose verify() raises was answered 400 "Invalid image file".
C8_Witness ==
  \E r \in Requests :
    /\ req[r].via = "route" /\ Done(r)
    /\ req[r].contents.kind = "badcrc"
    /\ req[r].status = 400 /\ req[r].detail = InvalidImage

\* C9: the detail of a 500 response never contains the text of the
\* exception that caused it.
C9_Generic500Detail ==
  \A r \in Requests :
    req[r].status = 500 => ~Contains(req[r].detail, req[r].exc)

MetadataCaptured(r) ==
  Contains(req[r].calls, "Image.open") /\ ~pil_open_raises(req[r].contents)

\* C11: whenever process_image has captured image_format and image_size,
\* the result it returns carries both, on every path after the capture.
C11_MetadataAlwaysStamped ==
  \A r \in Requests :
    (Done(r) /\ req[r].result # None /\ MetadataCaptured(r)) =>
      /\ req[r].result[1].image_format = Some(req[r].contents.format)
      /\ req[r].result[1].image_size = Some(req[r].contents.dims)

\* The image returned by preprocess for the RGB array of process_image.
Grayscale == [ndim |-> 2, denoised |-> TRUE]

Handlers == 1 .. NumConc

\* Mutant: the recognition call is awaited too (run on a worker thread).
suspends_at_readtext(site) == site \in {"read", "readtext"}

\* The call sites of predict at which the coroutine yields to the event
\* loop: the only await of the handler is that of line 50.
suspends(site) == site = "read"

Running(h) == req[h].pc \in {"entry", "readnow", "body", "readtext"}

Suspended(h) == req[h].pc \in {"reading", "offloaded"}

InReadtext(h) == req[h].pc \in {"readtext", "offloaded"}

LoopFree == \A h \in Handlers : ~Running(h)

\* Inputs of the concurrent handlers.
ConcContentTypes == {"image/png", "text/plain"}

ConcPayloads == {p \in Payloads : p.size \in {4096, 5, 11 * MiB}}

ConcEngines ==
  {e \in EngineOutcomes :
     \/ e.kind = "raise" /\ e.msg = "CUDA out of memory"
     \/ e.kind = "return" /\ Len(e.hits) <= 1}

ConcEnv(engine) == [read |-> "", preFault |-> FALSE, engine |-> engine]

InitConc ==
  /\ phase = "constructed"
  /\ reader = reader_initial
  /\ loadOutcome = "pending"
  /\ req = [h \in Handlers |-> Idle]

\* The loop starts the coroutine of a new POST /predict.
CStart(h) ==
  /\ phase = "serving"
  /\ req[h].pc = "idle"
  /\ LoopFree
  /\ \E content_type \in ConcContentTypes :
       req' = [req EXCEPT ![h] = [Idle EXCEPT !.pc = "entry", !.via = "route",
                                              !.content_type = content_type]]
  /\ UNCHANGED <<phase, reader, loadOutcome>>

\* predict, lines 34-46, then the call of image.read().
CEntry(h) ==
  /\ req[h].pc = "entry"
  /\ LET o == predict_entry(reader, req[h].content_type)
     IN req' = [req EXCEPT ![h] =
                  [@ EXCEPT !.pc = IF o.kind # "continue" THEN "done"
                                   ELSE IF suspends("read") THEN "reading" ELSE "readnow",
                            !.calls = o.calls, !.status = o.status, !.detail = o.detail]]
  /\ UNCHANGED <<phase, reader, loadOutcome>>

\* The read completes and the coroutine is resumed with the contents.
CRead(h) ==
  /\ req[h].pc \in {"reading", "readnow"}
  /\ req[h].pc = "reading" => LoopFree
  /\ \E contents \in ConcPayloads :
       req' = [req EXCEPT ![h] = [@ EXCEPT !.pc = "body", !.contents = contents]]
  /\ UNCHANGED <<phase, reader, loadOutcome>>

\* predict, lines 53-67: the validators and process_image, up to the call
\* of reader.readtext, or to the response when that call is not reached.
CBody(h) ==
  /\ req[h].pc = "body"
  /\ LET o == predict_except(predict_try(reader, req[h].contents,
                                         ConcEnv([kind |-> "return", msg |-> "", hits |-> <<>>])))
     IN req' = [req EXCEPT ![h] =
                  IF Contains(o.calls, "readtext")
                    THEN [@ EXCEPT !.pc = IF suspends("readtext") THEN "offloaded"
                                          ELSE "readtext",
                                   !.calls = @ \o o.calls]
                    ELSE [@ EXCEPT !.pc = "done", !.calls = @ \o o.calls,
                                   !.status = o.status, !.detail = o.detail,
                                   !.result = o.result, !.exc = o.msg]]
  /\ UNCHANGED <<phase, reader, loadOutcome>>

\* reader.readtext returns or raises; lines 108-135, 80-85 and 69 follow.
CReadtextReturn(h) ==
  /\ InReadtext(h)
  /\ req[h].pc = "offloaded" => LoopFree
  /\ \E engine \in ConcEngines :
       LET o == predict_except(predict_try(reader, req[h].contents, ConcEnv(engine)))
       IN req' = [req EXCEPT ![h] =
                    [@ EXCEPT !.pc = "done", !.status = o.status, !.detail = o.detail,
                              !.result = o.result, !.exc = o.msg, !.hits = o.hits,
                              !.engine_image = o.engine_image]]
  /\ UNCHANGED <<phase, reader, loadOutcome>>

\* GET /health: a coroutine without an await.
CHealth(h) ==
  /\ LoopFree
  /\ HealthCheck(h)

\* The response has been sent.
CComplete(h) ==
  /\ req[h].pc = "done"
  /\ req' = [req EXCEPT ![h] = Idle]
  /\ UNCHANGED <<phase, reader, loadOutcome>>

NextConc ==
  \/ InitializeOcr
  \/ \E h \in Handlers : CStart(h)
  \/ \E h \in Handlers : CEntry(h)
  \/ \E h \in Handlers : CRead(h)
  \/ \E h \in Handlers : CBody(h)
  \/ \E h \in Handlers : CReadtextReturn(h)
  \/ \E h \in Handlers : CHealth(h)
  \/ \E h \in Handlers : CComplete(h)

SpecConc == InitConc /\ [][NextConc]_vars

\* C13: at most one request is inside reader.readtext at any time; a
\* handler is suspended only at the read of the upload, before any
\* validator or process_image has run for it; and at most one handler runs.
C13_OneRequestInReadtext ==
  /\ Cardinality({h \in Handlers : InReadtext(h)}) <= 1
  /\ Cardinality({h \in Handlers : Running(h)}) <= 1
  /\ \A h \in Handlers :
       Suspended(h) =>
         /\ req[h].pc = "reading"
         /\ \A c \in {"validate_file_size", "validate_image", "process_image"} :
              ~Contains(req[h].calls, c)

\* One request is inside readtext while another is suspended at its read.
C13_Witness ==
  \E h, g \in Handlers :
    /\ h # g
    /\ req[h].pc = "readtext"
    /\ Contains(req[h].calls, "readtext")
    /\ req[g].pc = "reading"

====
